---- MODULE Spec2Model ----
(***************************************************************************)
(* A model of the R1CS solver of gnark                                     *)
(* (internal/generators/backend/template/representations/r1cs.go).         *)
(*                                                                         *)
(* One behaviour is one call of R1CS.Solve: the constraint system, the     *)
(* assignment map and the caller's buffers are chosen in Init, and the     *)
(* actions are the steps of Solve in program order: the size check, the    *)
(* input phase, one step per computational constraint, one step per        *)
(* assertion.  A step that ends the call (a returned error, a panic, the   *)
(* final return) also runs the deferred printLogs.                         *)
(*                                                                         *)
(* Field elements are kept as fr.Element keeps them: in Montgomery form,   *)
(* over a small prime field.                                               *)
(***************************************************************************)
EXTENDS Integers, Sequences, FiniteSets, TLC

(***************************************************************************)
(* The field (package fr): a prime field whose elements are stored in      *)
(* Montgomery form x * 2^64 mod q.                                         *)
(***************************************************************************)
Modulus == 19

WordBits == 64

Elements == 0 .. (Modulus - 1)

RECURSIVE PowMod(_, _)
PowMod(base, e) == IF e = 0 THEN 1 ELSE (base * PowMod(base, e - 1)) % Modulus

\* the Montgomery radix 2^64 mod q, and its inverse
MontR == PowMod(2, WordBits)

InvTable == [x \in Elements |->
               IF x = 0 THEN 0 ELSE CHOOSE y \in Elements : (x * y) % Modulus = 1]

MontRInv == InvTable[MontR]

\* z.Add(x, y), z.Sub(x, y), z.Neg(x), z.Double(x): the same in either form
Add(x, y) == (x + y) % Modulus

Sub(x, y) == (x - y + Modulus) % Modulus

Neg(x) == (Modulus - x) % Modulus

Double(x) == (2 * x) % Modulus

\* z.Mul(x, y): the Montgomery product x * y / 2^64
Mul(x, y) == (x * y * MontRInv) % Modulus

\* z.Div(x, y): x * y^-1 in Montgomery form (the inverse of zero is zero)
Div(x, y) == (x * InvTable[y] * MontR) % Modulus

IsZero(x) == x = 0

Equal(x, y) == x = y

\* z.SetUint64(v), z.SetOne(), z.SetInterface(v): from a regular integer
SetUint64(v) == ((v % Modulus) * MontR) % Modulus

SetOne == SetUint64(1)

SetInterface(v) == SetUint64(v)

\* z.ToRegular(), z.ToBigIntRegular(): the canonical integer of an element
ToRegular(x) == (x * MontRInv) % Modulus

ToBigIntRegular(x) == ToRegular(x)

\* z.String(): the decimal text of the canonical integer, kept as the integer
String(x) == ToRegular(x)

(***************************************************************************)
(* Terms (package r1c): a wire, the index of a coefficient in              *)
(* r1cs.Coefficients, and the special value that marks the coefficients    *)
(* 0, 1, -1 and 2.                                                         *)
(***************************************************************************)
NotSpecial == 99

ConstraintID(t) == t.cID

CoeffID(t) == t.coeffID

CoeffValue(t) == t.coeffValue

(***************************************************************************)
(* AddTerm returns res + value * t.Coefficient.                            *)
(***************************************************************************)
AddTerm(r1cs, res, t, value) ==
    CASE CoeffValue(t) = 1  -> Add(res, value)
      [] CoeffValue(t) = -1 -> Sub(res, value)
      [] CoeffValue(t) = 0  -> res
      [] CoeffValue(t) = 2  -> Add(res, Double(value))
      [] OTHER              -> Add(res, Mul(r1cs.Coefficients[CoeffID(t) + 1], value))

(***************************************************************************)
(* mulWireByCoeff returns res * t.Coefficient.                             *)
(***************************************************************************)
mulWireByCoeff(r1cs, res, t) ==
    CASE CoeffValue(t) = 1  -> res
      [] CoeffValue(t) = -1 -> Neg(res)
      [] CoeffValue(t) = 0  -> 0
      [] CoeffValue(t) = 2  -> Double(res)
      [] OTHER              -> Mul(res, r1cs.Coefficients[CoeffID(t) + 1])

\* one loop of instantiateR1C: the terms of a linear expression added up
RECURSIVE EvalTerms(_, _, _, _)
EvalTerms(r1cs, terms, k, wireValues) ==
    IF k = 0 THEN 0
    ELSE AddTerm(r1cs, EvalTerms(r1cs, terms, k - 1, wireValues), terms[k],
                 wireValues[ConstraintID(terms[k])])

(***************************************************************************)
(* instantiateR1C: the L, R and O parts of a constraint on the wire values *)
(***************************************************************************)
instantiateR1C(r, r1cs, wireValues) ==
    [a |-> EvalTerms(r1cs, r.L, Len(r.L), wireValues),
     b |-> EvalTerms(r1cs, r.R, Len(r.R), wireValues),
     c |-> EvalTerms(r1cs, r.O, Len(r.O), wireValues)]

\* a check that adds where it should multiply
SatisfiedSum(v) == Equal(Add(v.a, v.b), v.c)

\* check.Mul(&a[i], &b[i]); check.Equal(&c[i]): the constraint holds
Satisfied(v) == Equal(Mul(v.a, v.b), v.c)

(***************************************************************************)
(* solveR1C, case r1c.SingleOutput.  The state of the scan over the terms  *)
(* of L, R and O: the three running sums, loc (0: no unset wire found yet, *)
(* 1, 2, 3: it is in L, R, O), the term to compute, and the panic raised.  *)
(***************************************************************************)
NoPanic == ""

NoTerm == [cID |-> 0, coeffID |-> 0, coeffValue |-> 0]

ScanStart == [a |-> 0, b |-> 0, c |-> 0, loc |-> 0, termToCompute |-> NoTerm,
              panic |-> NoPanic]

\* val, the running sum that locValue names
ScanAdd(r1cs, st, locValue, t, value) ==
    CASE locValue = 1 -> [st EXCEPT !.a = AddTerm(r1cs, st.a, t, value)]
      [] locValue = 2 -> [st EXCEPT !.b = AddTerm(r1cs, st.b, t, value)]
      [] OTHER        -> [st EXCEPT !.c = AddTerm(r1cs, st.c, t, value)]

processTerm(r1cs, st, t, locValue, wireInstantiated, wireValues) ==
    IF st.panic # NoPanic THEN st
    ELSE IF wireInstantiated[ConstraintID(t)]
         THEN ScanAdd(r1cs, st, locValue, t, wireValues[ConstraintID(t)])
         ELSE IF st.loc # 0
              THEN [st EXCEPT !.panic = "found more than one wire to instantiate"]
              ELSE [st EXCEPT !.termToCompute = t, !.loc = locValue]

\* for _, t := range terms { processTerm(t, val, locValue) }
RECURSIVE processTerms(_, _, _, _, _, _, _)
processTerms(r1cs, st, terms, k, locValue, wireInstantiated, wireValues) ==
    IF k = 0 THEN st
    ELSE processTerm(r1cs,
                     processTerms(r1cs, st, terms, k - 1, locValue,
                                  wireInstantiated, wireValues),
                     terms[k], locValue, wireInstantiated, wireValues)

\* a solver that subtracts the wrong way round when the unset wire is in O
ComputedWireReversed(r1cs, st, old) ==
    CASE st.loc = 1 ->
           IF ~IsZero(st.b)
           THEN mulWireByCoeff(r1cs, Sub(Div(st.c, st.b), st.a), st.termToCompute)
           ELSE old
      [] st.loc = 2 ->
           IF ~IsZero(st.a)
           THEN mulWireByCoeff(r1cs, Sub(Div(st.c, st.a), st.b), st.termToCompute)
           ELSE old
      [] OTHER ->
           mulWireByCoeff(r1cs, Sub(st.c, Mul(st.a, st.b)), st.termToCompute)

\* the value stored in the unset wire; old is the value the wire holds
ComputedWire(r1cs, st, old) ==
    CASE st.loc = 1 ->
           IF ~IsZero(st.b)
           THEN mulWireByCoeff(r1cs, Sub(Div(st.c, st.b), st.a), st.termToCompute)
           ELSE old
      [] st.loc = 2 ->
           IF ~IsZero(st.a)
           THEN mulWireByCoeff(r1cs, Sub(Div(st.c, st.a), st.b), st.termToCompute)
           ELSE old
      [] OTHER ->
           mulWireByCoeff(r1cs, Sub(Mul(st.a, st.b), st.c), st.termToCompute)

\* the three loops over the terms of L, R and O
scanR1C(r1cs, r, wireInstantiated, wireValues) ==
    LET sL == processTerms(r1cs, ScanStart, r.L, Len(r.L), 1,
                           wireInstantiated, wireValues)
        sR == processTerms(r1cs, sL, r.R, Len(r.R), 2, wireInstantiated, wireValues)
    IN  processTerms(r1cs, sR, r.O, Len(r.O), 3, wireInstantiated, wireValues)

\* a solver that leaves the wire unmarked when its divisor side is zero
solveSingleOutputUnmarked(r1cs, r, wireInstantiated, wireValues) ==
    LET st == scanR1C(r1cs, r, wireInstantiated, wireValues)
        cID == ConstraintID(st.termToCompute)
        skipped == \/ st.loc = 1 /\ IsZero(st.b)
                   \/ st.loc = 2 /\ IsZero(st.a)
    IN  IF st.panic # NoPanic \/ st.loc = 0 \/ skipped
        THEN [wireValues |-> wireValues, wireInstantiated |-> wireInstantiated,
              panic |-> st.panic]
        ELSE [wireValues |->
                [wireValues EXCEPT ![cID] = ComputedWire(r1cs, st, wireValues[cID])],
              wireInstantiated |-> [wireInstantiated EXCEPT ![cID] = TRUE],
              panic |-> NoPanic]

solveSingleOutput(r1cs, r, wireInstantiated, wireValues) ==
    LET st == scanR1C(r1cs, r, wireInstantiated, wireValues)
        cID == ConstraintID(st.termToCompute)
    IN  IF st.panic # NoPanic \/ st.loc = 0
        THEN [wireValues |-> wireValues, wireInstantiated |-> wireInstantiated,
              panic |-> st.panic]
        ELSE [wireValues |->
                [wireValues EXCEPT ![cID] = ComputedWire(r1cs, st, wireValues[cID])],
              wireInstantiated |-> [wireInstantiated EXCEPT ![cID] = TRUE],
              panic |-> NoPanic]

(***************************************************************************)
(* solveR1C, case r1c.BinaryDec.                                           *)
(***************************************************************************)
\* quickLog: the number of right shifts that bring bi to zero, minus one
RECURSIVE quickLog(_)
quickLog(bi) == IF bi = 0 THEN -1 ELSE 1 + quickLog(bi \div 2)

\* bitSlice[k] = (n >> k) & 1, for k < nbBits
bitSlice(n, nbBits) == [k \in 0 .. (nbBits - 1) |-> (n \div (2 ^ k)) % 2]

\* a loop that takes the place of a term in L for the place of its bit
RECURSIVE affectBitsInOrder(_, _, _, _, _)
affectBitsInOrder(r1cs, terms, k, bits, w) ==
    IF k = 0 THEN w
    ELSE LET prev == affectBitsInOrder(r1cs, terms, k - 1, bits, w)
             t == terms[k]
         IN  [wireValues |->
                [prev.wireValues EXCEPT ![ConstraintID(t)] = SetUint64(bits[k - 1])],
              wireInstantiated |->
                [prev.wireInstantiated EXCEPT ![ConstraintID(t)] = TRUE],
              panic |-> NoPanic]

\* a loop that marks a wire as instantiated only when its bit is 1
RECURSIVE affectBitsMarkingOnes(_, _, _, _, _)
affectBitsMarkingOnes(r1cs, terms, k, bits, w) ==
    IF k = 0 THEN w
    ELSE LET prev == affectBitsMarkingOnes(r1cs, terms, k - 1, bits, w)
             t == terms[k]
             ithBit == quickLog(ToBigIntRegular(r1cs.Coefficients[CoeffID(t) + 1]))
         IN  IF prev.panic # NoPanic THEN prev
             ELSE IF ithBit \notin DOMAIN bits
                  THEN [prev EXCEPT !.panic = "index out of range"]
                  ELSE [wireValues |->
                          [prev.wireValues EXCEPT ![ConstraintID(t)] =
                                                     SetUint64(bits[ithBit])],
                        wireInstantiated |->
                          [prev.wireInstantiated EXCEPT ![ConstraintID(t)] =
                                                           (bits[ithBit] = 1)],
                        panic |-> NoPanic]

\* the loop that gives each wire of L its bit; it stops at the first panic
RECURSIVE affectBits(_, _, _, _, _)
affectBits(r1cs, terms, k, bits, w) ==
    IF k = 0 THEN w
    ELSE LET prev == affectBits(r1cs, terms, k - 1, bits, w)
             t == terms[k]
             ithBit == quickLog(ToBigIntRegular(r1cs.Coefficients[CoeffID(t) + 1]))
         IN  IF prev.panic # NoPanic THEN prev
             ELSE IF ithBit \notin DOMAIN bits
                  THEN [prev EXCEPT !.panic = "index out of range"]
                  ELSE [wireValues |->
                          [prev.wireValues EXCEPT ![ConstraintID(t)] =
                                                     SetUint64(bits[ithBit])],
                        wireInstantiated |->
                          [prev.wireInstantiated EXCEPT ![ConstraintID(t)] = TRUE],
                        panic |-> NoPanic]

solveBinaryDec(r1cs, r, wireInstantiated, wireValues) ==
    LET n == ToRegular(EvalTerms(r1cs, r.O, Len(r.O), wireValues))
        nbBits == Len(r.L)
    IN  affectBits(r1cs, r.L, Len(r.L), bitSlice(n, nbBits),
                   [wireValues |-> wireValues, wireInstantiated |-> wireInstantiated,
                    panic |-> NoPanic])

(***************************************************************************)
(* solveR1C computes the wires a constraint defines.                       *)
(***************************************************************************)
solveR1C(r1cs, r, wireInstantiated, wireValues) ==
    CASE r.Solver = "SingleOutput" ->
           solveSingleOutput(r1cs, r, wireInstantiated, wireValues)
      [] r.Solver = "BinaryDec" ->
           solveBinaryDec(r1cs, r, wireInstantiated, wireValues)
      [] OTHER ->
           [wireValues |-> wireValues, wireInstantiated |-> wireInstantiated,
            panic |-> "unimplemented solving method"]

(***************************************************************************)
(* logValue resolves a log entry: the text of each wire it names, put in   *)
(* the format.  The formatted string is kept as the pair of the format and *)
(* its arguments.  It panics on a wire that is not instantiated.           *)
(***************************************************************************)
\* a test of the bitmap without its negation
logPanicsOnSet(entry, wireInstantiated) ==
    \E j \in 1 .. Len(entry.ToResolve) : wireInstantiated[entry.ToResolve[j]]

\* line 187: a wire of the entry is not instantiated
logPanics(entry, wireInstantiated) ==
    \E j \in 1 .. Len(entry.ToResolve) : ~wireInstantiated[entry.ToResolve[j]]

\* a resolution that substitutes the wires last to first
logValueReversed(entry, wireValues, wireInstantiated) ==
    [Format |-> entry.Format,
     args |-> [j \in 1 .. Len(entry.ToResolve) |->
                  String(wireValues[entry.ToResolve[Len(entry.ToResolve) + 1 - j]])]]

logValue(entry, wireValues, wireInstantiated) ==
    [Format |-> entry.Format,
     args |-> [j \in 1 .. Len(entry.ToResolve) |-> String(wireValues[entry.ToResolve[j]])]]

(***************************************************************************)
(* printLogs prints every log in order, up to the first one that panics:   *)
(* the output, and whether it panicked.                                    *)
(***************************************************************************)
RECURSIVE printLogs(_, _, _, _)
printLogs(r1cs, k, wireValues, wireInstantiated) ==
    IF k = 0 THEN [out |-> <<>>, panic |-> NoPanic]
    ELSE LET prev == printLogs(r1cs, k - 1, wireValues, wireInstantiated)
         IN  IF prev.panic # NoPanic THEN prev
             ELSE IF logPanics(r1cs.Logs[k], wireInstantiated)
                  THEN [prev EXCEPT !.panic = "wire values was not instantiated"]
                  ELSE [prev EXCEPT !.out =
                          Append(@, logValue(r1cs.Logs[k], wireValues, wireInstantiated))]

(***************************************************************************)
(* instantiateInputs writes the inputs named by inputNames from offset on; *)
(* it stops at the first name the assignment does not hold.                *)
(***************************************************************************)
OneWire == "ONE_WIRE"

\* an input phase that leaves a missing input unset and goes on
RECURSIVE instantiateInputsLenient(_, _, _, _, _)
instantiateInputsLenient(assignment, offset, inputNames, k, w) ==
    IF k = 0 THEN w
    ELSE LET prev == instantiateInputsLenient(assignment, offset, inputNames, k - 1, w)
             name == inputNames[k]
             idx == (k - 1) + offset
         IN  IF name = OneWire
             THEN [prev EXCEPT !.wireValues[idx] = SetOne,
                               !.wireInstantiated[idx] = TRUE]
             ELSE IF name \in DOMAIN assignment
                  THEN [prev EXCEPT !.wireValues[idx] = SetInterface(assignment[name]),
                                    !.wireInstantiated[idx] = TRUE]
                  ELSE prev

\* an input phase that looks the constant wire up in the assignment
RECURSIVE instantiateInputsLookup(_, _, _, _, _)
instantiateInputsLookup(assignment, offset, inputNames, k, w) ==
    IF k = 0 THEN w
    ELSE LET prev == instantiateInputsLookup(assignment, offset, inputNames, k - 1, w)
             name == inputNames[k]
             idx == (k - 1) + offset
         IN  IF prev.err # "" THEN prev
             ELSE IF name \in DOMAIN assignment
                  THEN [prev EXCEPT !.wireValues[idx] = SetInterface(assignment[name]),
                                    !.wireInstantiated[idx] = TRUE]
                  ELSE IF name = OneWire
                       THEN [prev EXCEPT !.wireValues[idx] = SetOne,
                                         !.wireInstantiated[idx] = TRUE]
                       ELSE [prev EXCEPT !.err = name]

RECURSIVE instantiateInputs(_, _, _, _, _)
instantiateInputs(assignment, offset, inputNames, k, w) ==
    IF k = 0 THEN w
    ELSE LET prev == instantiateInputs(assignment, offset, inputNames, k - 1, w)
             name == inputNames[k]
             idx == (k - 1) + offset
         IN  IF prev.err # "" THEN prev
             ELSE IF name = OneWire
                  THEN [prev EXCEPT !.wireValues[idx] = SetOne,
                                    !.wireInstantiated[idx] = TRUE]
                  ELSE IF name \in DOMAIN assignment
                       THEN [prev EXCEPT !.wireValues[idx] = SetInterface(assignment[name]),
                                         !.wireInstantiated[idx] = TRUE]
                       ELSE [prev EXCEPT !.err = name]

(***************************************************************************)
(* The constraint systems, assignments and buffers a call is made with.    *)
(***************************************************************************)
\* the largest input value of an assignment, the widest binary decomposition
MaxVal == 2

MaxBits == 4

\* r1cs.Coefficients, in Montgomery form: 0, 1, 2, -1, 3, then 4, 8, ...
CoeffTable ==
    [k \in 1 .. (MaxBits + 3) |->
        CASE k = 1 -> SetUint64(0)
          [] k = 2 -> SetUint64(1)
          [] k = 3 -> SetUint64(2)
          [] k = 4 -> Neg(SetUint64(1))
          [] k = 5 -> SetUint64(3)
          [] OTHER -> SetUint64(2 ^ (k - 4))]

\* the special value the builder gives the term of a coefficient
SpecialOf(coeff) ==
    CASE coeff = SetUint64(0)      -> 0
      [] coeff = SetUint64(1)      -> 1
      [] coeff = SetUint64(2)      -> 2
      [] coeff = Neg(SetUint64(1)) -> -1
      [] OTHER                     -> NotSpecial

\* r1c.Pack: the term of coefficient CoeffTable[coeffID + 1] on wire cID
Term(coeffID, cID) ==
    [cID |-> cID, coeffID |-> coeffID, coeffValue |-> SpecialOf(CoeffTable[coeffID + 1])]

\* the index in the table of 1, -1, 3 and of 2^k
IdOne == 1

IdMinusOne == 3

IdThree == 4

IdPow2(k) == IF k < 2 THEN k + 1 ELSE k + 3

R1C(L, R, O, Solver) == [L |-> L, R |-> R, O |-> O, Solver |-> Solver]

LogEntry(Format, ToResolve) == [Format |-> Format, ToResolve |-> ToResolve]

(***************************************************************************)
(* Gate systems: wires w0 | x | ONE, y.  One computational constraint of   *)
(* the single-unknown kind, whose three sides are drawn freely, then the   *)
(* assertion w0 * 1 = y.                                                   *)
(***************************************************************************)
GateSides ==
    {<<Term(IdOne, 1)>>, <<Term(IdOne, 2)>>, <<Term(IdOne, 3)>>, <<Term(2, 1)>>,
     <<Term(IdOne, 1), Term(IdMinusOne, 3)>>}
      \cup {<<Term(k, 0)>> : k \in 0 .. 4}
      \cup {<<Term(IdOne, 1), Term(k, 0)>> : k \in {IdOne, 2}}
      \cup {<<Term(IdOne, 0), Term(IdOne, 0)>>}

GateSystem(L, R, O) ==
    [NbWires |-> 4, NbPublicWires |-> 2, NbSecretWires |-> 1,
     SecretWires |-> <<"x">>, PublicWires |-> <<OneWire, "y">>,
     Logs |-> <<LogEntry("x=%s", <<1>>), LogEntry("w0=%s", <<0>>)>>,
     DebugInfo |-> <<LogEntry("%s == %s", <<0, 3>>)>>,
     NbConstraints |-> 2, NbCOConstraints |-> 1,
     Constraints |-> <<R1C(L, R, O, "SingleOutput"),
                       R1C(<<Term(IdOne, 0)>>, <<Term(IdOne, 2)>>, <<Term(IdOne, 3)>>,
                           "SingleOutput")>>,
     Coefficients |-> CoeffTable]

GateSystems == {GateSystem(L, R, O) : L \in GateSides, R \in GateSides, O \in GateSides}

\* a call with buffers of the right sizes, all zero or all holding old values
Stale == SetUint64(5)

Buffer(n, dirty) == [k \in 0 .. (n - 1) |-> IF dirty THEN Stale ELSE 0]

Call(r1cs, assignment, lenA, lenB, lenC, lenW, dirty) ==
    [r1cs |-> r1cs, assignment |-> assignment,
     a |-> Buffer(lenA, dirty), b |-> Buffer(lenB, dirty), c |-> Buffer(lenC, dirty),
     wireValues |-> Buffer(lenW, dirty)]

SizedCall(r1cs, assignment, dirty) ==
    Call(r1cs, assignment, r1cs.NbConstraints, r1cs.NbConstraints, r1cs.NbConstraints,
         r1cs.NbWires, dirty)

GateCalls ==
    {SizedCall(cs, [n \in {"x", "y"} |-> IF n = "x" THEN x ELSE y], dirty) :
        cs \in GateSystems, x \in 0 .. MaxVal, y \in 0 .. MaxVal, dirty \in BOOLEAN}

\* two gates with the values of the documented examples: 6 * 7 = w0, and
\* w0 * 0 = 5
ExampleCalls ==
    {SizedCall(GateSystem(<<Term(IdOne, 1)>>, <<Term(IdOne, 3)>>, <<Term(IdOne, 0)>>),
               [n \in {"x", "y"} |-> IF n = "x" THEN 6 ELSE 7], FALSE),
     SizedCall(GateSystem(<<Term(IdOne, 0)>>, <<Term(IdOne, 1)>>, <<Term(IdOne, 3)>>),
               [n \in {"x", "y"} |-> IF n = "x" THEN 0 ELSE 5], FALSE)}

(***************************************************************************)
(* Chain systems: wires w0, w1 | x | ONE, y.  Two computational            *)
(* constraints drawn from a list of gates, in either order, then the       *)
(* assertion w0 * 1 = y, with its debug entry or without any.              *)
(***************************************************************************)
ChainGates ==
    {R1C(<<Term(IdOne, 2)>>, <<Term(IdOne, 3)>>, <<Term(IdOne, 0)>>, "SingleOutput"),
     R1C(<<Term(IdOne, 0)>>, <<Term(IdOne, 3)>>, <<Term(IdOne, 1)>>, "SingleOutput"),
     R1C(<<Term(IdOne, 0)>>, <<Term(IdOne, 2)>>, <<Term(IdOne, 4)>>, "SingleOutput"),
     R1C(<<Term(IdOne, 1)>>, <<Term(IdOne, 2)>>, <<Term(IdOne, 4)>>, "SingleOutput"),
     R1C(<<Term(IdOne, 2)>>, <<Term(IdOne, 0)>>, <<Term(IdOne, 3)>>, "SingleOutput"),
     R1C(<<Term(IdOne, 0)>>, <<Term(IdOne, 3)>>, <<Term(IdOne, 4)>>, "BinaryDec"),
     R1C(<<Term(IdOne, 0), Term(2, 1)>>, <<Term(IdOne, 3)>>, <<Term(IdOne, 2)>>,
         "BinaryDec"),
     R1C(<<Term(IdOne, 1)>>, <<Term(IdOne, 0)>>, <<Term(IdOne, 4)>>, "BinaryDec")}

ChainSystem(g0, g1, debug) ==
    [NbWires |-> 5, NbPublicWires |-> 2, NbSecretWires |-> 1,
     SecretWires |-> <<"x">>, PublicWires |-> <<OneWire, "y">>,
     Logs |-> <<LogEntry("w0=%s", <<0>>)>>,
     DebugInfo |-> IF debug THEN <<LogEntry("%s == %s", <<0, 4>>)>> ELSE <<>>,
     NbConstraints |-> 3, NbCOConstraints |-> 2,
     Constraints |-> <<g0, g1,
                       R1C(<<Term(IdOne, 0)>>, <<Term(IdOne, 3)>>, <<Term(IdOne, 4)>>,
                           "SingleOutput")>>,
     Coefficients |-> CoeffTable]

ChainCalls ==
    {SizedCall(ChainSystem(g0, g1, debug),
               [n \in {"x", "y"} |-> IF n = "x" THEN x ELSE y], dirty) :
        g0 \in ChainGates, g1 \in ChainGates, debug \in BOOLEAN,
        x \in 0 .. MaxVal, y \in 0 .. MaxVal, dirty \in BOOLEAN}

(***************************************************************************)
(* Bit systems: wires b0 .. b(n-1) | x | ONE.  One binary decomposition of *)
(* x over n wires, the term of wire j holding the coefficient 2^pos[j],    *)
(* then the assertion b0 * 1 = 1.                                          *)
(***************************************************************************)
\* the positions of the bits: every order of 0 .. n-1, and for narrow
\* decompositions every choice of positions in 0 .. n
BitPositions(n) ==
    {pos \in [1 .. n -> 0 .. (n - 1)] : \A j, k \in 1 .. n : pos[j] = pos[k] => j = k}
      \cup (IF n <= 2 THEN [1 .. n -> 0 .. n] ELSE {})

BitSystem(n, pos, same) ==
    [NbWires |-> n + 2, NbPublicWires |-> 1, NbSecretWires |-> 1,
     SecretWires |-> <<"x">>, PublicWires |-> <<OneWire>>,
     Logs |-> <<LogEntry("b0=%s", <<0>>)>>,
     DebugInfo |-> <<LogEntry("%s == 1", <<0>>)>>,
     NbConstraints |-> 2, NbCOConstraints |-> 1,
     Constraints |-> <<R1C([j \in 1 .. n |->
                              Term(IdPow2(pos[j]), IF same THEN 0 ELSE j - 1)],
                           <<Term(IdOne, n + 1)>>, <<Term(IdOne, n)>>, "BinaryDec"),
                       R1C(<<Term(IdOne, 0)>>, <<Term(IdOne, n + 1)>>,
                           <<Term(IdOne, n + 1)>>, "SingleOutput")>>,
     Coefficients |-> CoeffTable]

\* the wires of L are all different, or (two terms) both the wire b0
BitShapes ==
    UNION {{<<n, pos, FALSE>> : pos \in BitPositions(n)} : n \in 1 .. MaxBits}
      \cup {<<2, pos, TRUE>> : pos \in BitPositions(2)}

BitCalls ==
    {SizedCall(BitSystem(sh[1], sh[2], sh[3]), [n \in {"x"} |-> x], dirty) :
        sh \in BitShapes, x \in 0 .. (2 ^ MaxBits - 1), dirty \in BOOLEAN}

(***************************************************************************)
(* Input systems: wires w0 | the secret inputs | the public inputs, with   *)
(* the constant wire first or last, and an assignment that holds any of    *)
(* the names.  The constraints are 1 * 1 = w0 and the assertion            *)
(* w0 * 1 = 1, or none at all.                                             *)
(***************************************************************************)
InputNames == {"s1", "s2", "p1", "p2", OneWire}

InputValue(name) ==
    CASE name = "s1" -> 1 [] name = "s2" -> 2 [] name = "p1" -> 3 [] OTHER -> 4

InputSystem(secret, public, nbCons) ==
    LET n == 1 + Len(secret) + Len(public)
        one == CHOOSE k \in 1 .. Len(public) : public[k] = OneWire
        oneID == Len(secret) + one
    IN  [NbWires |-> n, NbPublicWires |-> Len(public), NbSecretWires |-> Len(secret),
         SecretWires |-> secret, PublicWires |-> public,
         Logs |-> <<LogEntry("in=%s", <<n - 1>>)>>,
         DebugInfo |-> IF nbCons = 0 THEN <<>> ELSE <<LogEntry("%s == 1", <<0>>)>>,
         NbConstraints |-> nbCons, NbCOConstraints |-> nbCons \div 2,
         Constraints |->
            IF nbCons = 0 THEN <<>>
            ELSE <<R1C(<<Term(IdOne, oneID)>>, <<Term(IdOne, oneID)>>,
                       <<Term(IdOne, 0)>>, "SingleOutput"),
                   R1C(<<Term(IdOne, 0)>>, <<Term(IdOne, oneID)>>,
                       <<Term(IdOne, oneID)>>, "SingleOutput")>>,
         Coefficients |-> CoeffTable]

InputSystems ==
    {InputSystem(secret, public, nbCons) :
        secret \in {<<>>, <<"s1">>, <<"s1", "s2">>, <<"s2", "s1">>},
        public \in {<<OneWire>>, <<OneWire, "p1">>, <<"p1", OneWire>>,
                    <<OneWire, "p1", "p2">>, <<"p2", "p1", OneWire>>},
        nbCons \in {0, 2}}

InputCalls ==
    {SizedCall(cs, [n \in names |-> InputValue(n)], dirty) :
        cs \in InputSystems, names \in SUBSET InputNames, dirty \in BOOLEAN}

(***************************************************************************)
(* Calls whose buffers may have any length around the right one.           *)
(***************************************************************************)
SizeSystems ==
    {GateSystem(<<Term(IdOne, 1)>>, <<Term(IdOne, 2)>>, <<Term(IdOne, 0)>>),
     InputSystem(<<"s1">>, <<OneWire>>, 0)}

Around(n) == {k \in {n - 1, n, n + 1} : k >= 0}

SizeCalls ==
    {Call(cs, [n \in names |-> 1], sz[1], sz[2], sz[3], sz[4], dirty) :
        cs \in SizeSystems, names \in {{}, {"x", "y", "s1"}},
        sz \in UNION {Around(cs.NbConstraints) \X Around(cs.NbConstraints)
                        \X Around(cs.NbConstraints) \X Around(cs.NbWires) :
                      cs \in SizeSystems},
        dirty \in BOOLEAN}

(***************************************************************************)
(* Assertion systems (the circuit "noComputationCircuit" and its like):   *)
(* wires x | ONE, y and no intermediate wire, no computational constraint, *)
(* one or two assertions whose sides are drawn from the inputs, a debug    *)
(* entry for each assertion and a log on x.                                *)
(***************************************************************************)
AssertSides ==
    {<<Term(IdOne, 0)>>, <<Term(IdOne, 1)>>, <<Term(IdOne, 2)>>, <<Term(2, 0)>>,
     <<Term(IdOne, 2), Term(IdMinusOne, 0)>>}

\* A = B, as the builder writes it: y * 1 = x
AssertEqual == R1C(<<Term(IdOne, 2)>>, <<Term(IdOne, 1)>>, <<Term(IdOne, 0)>>, "SingleOutput")

AssertSystem(asserts) ==
    [NbWires |-> 3, NbPublicWires |-> 2, NbSecretWires |-> 1,
     SecretWires |-> <<"x">>, PublicWires |-> <<OneWire, "y">>,
     Logs |-> <<LogEntry("x=%s", <<0>>)>>,
     DebugInfo |-> [k \in 1 .. Len(asserts) |-> LogEntry("%s == %s", <<2, 0>>)],
     NbConstraints |-> Len(asserts), NbCOConstraints |-> 0,
     Constraints |-> asserts,
     Coefficients |-> CoeffTable]

AssertSystems ==
    {AssertSystem(<<R1C(L, R, O, "SingleOutput")>> \o more) :
        L \in AssertSides, R \in AssertSides, O \in AssertSides,
        more \in {<<>>, <<AssertEqual>>,
                  <<R1C(<<Term(IdOne, 0)>>, <<Term(IdOne, 0)>>, <<Term(IdOne, 2)>>,
                        "SingleOutput")>>}}

\* any small inputs, and the inputs of the test: A = 42 with B = 42 or 43
AssertCalls ==
    {SizedCall(cs, [n \in {"x", "y"} |-> IF n = "x" THEN x ELSE y], dirty) :
        cs \in AssertSystems, x \in 0 .. MaxVal, y \in 0 .. MaxVal, dirty \in BOOLEAN}
      \cup {SizedCall(AssertSystem(<<AssertEqual>>),
                      [n \in {"x", "y"} |-> IF n = "x" THEN x ELSE 42], FALSE) :
               x \in {42, 43}}


(***************************************************************************)
(* The state of one call of Solve.                                         *)
(***************************************************************************)
VARIABLES
    r1cs,              \* the constraint system (the receiver)
    assignment,        \* the assignment map
    a, b, c,           \* the caller's vectors a, b, c
    wireValues,        \* the caller's wire values
    wireInstantiated,  \* the wires that have a value
    pc,                \* "start", "inputs", "solve", "assert", "done"
    i,                 \* the index of the constraint the loops are at
    ret,               \* how the call ended: kind and detail
    stdout,            \* what printLogs printed
    entry,             \* the buffers and the system as the caller passed them
    pre,               \* the wires before the last solveR1C, and its constraint
    other              \* a second call on the same system, while it does not run

vars == <<r1cs, assignment, a, b, c, wireValues, wireInstantiated, pc, i, ret,
          stdout, entry, pre, other>>

Running == [kind |-> "running", detail |-> <<>>]

NoPre == [i |-> -1, wireValues |-> <<>>, wireInstantiated |-> <<>>]

\* no second call
Alone == <<>>

Begin(call) ==
    /\ r1cs = call.r1cs
    /\ assignment = call.assignment
    /\ a = call.a
    /\ b = call.b
    /\ c = call.c
    /\ wireValues = call.wireValues
    /\ wireInstantiated = <<>>
    /\ pc = "start"
    /\ i = 0
    /\ ret = Running
    /\ stdout = <<>>
    /\ entry = [a |-> call.a, b |-> call.b, c |-> call.c,
                wireValues |-> call.wireValues, r1cs |-> call.r1cs]
    /\ pre = NoPre

Enter(call) == Begin(call) /\ other = Alone

Init ==
    \/ \E call \in GateCalls : Enter(call)
    \/ \E call \in ExampleCalls : Enter(call)
    \/ \E call \in ChainCalls : Enter(call)
    \/ \E call \in BitCalls : Enter(call)
    \/ \E call \in InputCalls : Enter(call)
    \/ \E call \in SizeCalls : Enter(call)
    \/ \E call \in AssertCalls : Enter(call)

\* the length of a buffer whose indexes start at 0
len(buf) == Cardinality(DOMAIN buf)

(***************************************************************************)
(* Solve, lines 96-101: the check of the sizes, and the bitmap.            *)
(***************************************************************************)
\* a size check that forgets the wire values
SizeMismatchABC(cs, la, lb, lc, lw) ==
    \/ la # cs.NbConstraints
    \/ lb # cs.NbConstraints
    \/ lc # cs.NbConstraints

\* line 96: the condition of the invalid input size error
SizeMismatch(cs, la, lb, lc, lw) ==
    \/ la # cs.NbConstraints
    \/ lb # cs.NbConstraints
    \/ lc # cs.NbConstraints
    \/ lw # cs.NbWires

CheckInputSize ==
    /\ pc = "start"
    /\ IF SizeMismatch(r1cs, len(a), len(b), len(c), len(wireValues))
       THEN /\ pc' = "done"
            /\ ret' = [kind |-> "InvalidInputSize", detail |-> <<>>]
            /\ UNCHANGED wireInstantiated
       ELSE /\ pc' = "inputs"
            /\ wireInstantiated' = [w \in 0 .. (r1cs.NbWires - 1) |-> FALSE]
            /\ UNCHANGED ret
    /\ UNCHANGED <<r1cs, assignment, a, b, c, wireValues, i, stdout, entry, pre, other>>

\* loops that stop after the computational constraints
PhaseAtSolved(k) ==
    IF k < r1cs.NbCOConstraints THEN "solve" ELSE "done"

\* where the loops go on from constraint k: the next phase, or the return
PhaseAt(k) ==
    IF k < r1cs.NbCOConstraints THEN "solve"
    ELSE IF k < Len(r1cs.Constraints) THEN "assert" ELSE "done"

\* logs printed by a call before each return, not by a deferred call
LeaveQuietOnPanic(kind, detail, wv, wi) ==
    LET p == printLogs(r1cs, Len(r1cs.Logs), wv, wi)
    IN  /\ pc' = "done"
        /\ stdout' = IF kind = "panic" THEN stdout ELSE stdout \o p.out
        /\ ret' = IF kind # "panic" /\ p.panic # NoPanic
                  THEN [kind |-> "panic", detail |-> p.panic]
                  ELSE [kind |-> kind, detail |-> detail]

\* the end of the call once printLogs is deferred: the logs are printed on
\* the way out, of a return and of a panic alike
Leave(kind, detail, wv, wi) ==
    LET p == printLogs(r1cs, Len(r1cs.Logs), wv, wi)
    IN  /\ pc' = "done"
        /\ stdout' = stdout \o p.out
        /\ ret' = IF p.panic # NoPanic
                  THEN [kind |-> "panic", detail |-> p.panic]
                  ELSE [kind |-> kind, detail |-> detail]

\* the loops go on at constraint k, or Solve returns nil
GoOn(k, wv, wi) ==
    IF PhaseAt(k) = "done"
    THEN Leave("nil", <<>>, wv, wi)
    ELSE /\ pc' = PhaseAt(k)
         /\ UNCHANGED <<ret, stdout>>

(***************************************************************************)
(* Solve, lines 108-142: the input phase, secret names then public names.  *)
(***************************************************************************)
InstantiateInputs ==
    /\ pc = "inputs"
    /\ LET w0 == [wireValues |-> wireValues, wireInstantiated |-> wireInstantiated,
                  err |-> ""]
           ws == IF r1cs.NbSecretWires # 0
                 THEN instantiateInputs(assignment,
                          r1cs.NbWires - r1cs.NbPublicWires - r1cs.NbSecretWires,
                          r1cs.SecretWires, Len(r1cs.SecretWires), w0)
                 ELSE w0
           wp == IF ws.err # "" THEN ws
                 ELSE instantiateInputs(assignment, r1cs.NbWires - r1cs.NbPublicWires,
                                        r1cs.PublicWires, Len(r1cs.PublicWires), ws)
       IN  /\ wireValues' = wp.wireValues
           /\ wireInstantiated' = wp.wireInstantiated
           /\ IF wp.err # ""
              THEN /\ pc' = "done"
                   /\ ret' = [kind |-> "InputNotSet", detail |-> wp.err]
                   /\ UNCHANGED stdout
              ELSE GoOn(0, wp.wireValues, wp.wireInstantiated)
    /\ UNCHANGED <<r1cs, assignment, a, b, c, i, entry, pre, other>>

\* a computational constraint that fails its check reported as an error
SolveConstraintReporting ==
    /\ pc = "solve"
    /\ LET r == r1cs.Constraints[i + 1]
           s == solveR1C(r1cs, r, wireInstantiated, wireValues)
           v == instantiateR1C(r, r1cs, s.wireValues)
       IN  /\ wireValues' = s.wireValues
           /\ wireInstantiated' = s.wireInstantiated
           /\ pre' = [i |-> i, wireValues |-> wireValues,
                      wireInstantiated |-> wireInstantiated]
           /\ IF s.panic # NoPanic
              THEN /\ Leave("panic", s.panic, s.wireValues, s.wireInstantiated)
                   /\ UNCHANGED <<a, b, c, i>>
              ELSE /\ a' = [a EXCEPT ![i] = v.a]
                   /\ b' = [b EXCEPT ![i] = v.b]
                   /\ c' = [c EXCEPT ![i] = v.c]
                   /\ IF ~Satisfied(v)
                      THEN /\ Leave("UnsatisfiedConstraint", <<>>,
                                    s.wireValues, s.wireInstantiated)
                           /\ UNCHANGED i
                      ELSE /\ i' = i + 1
                           /\ GoOn(i + 1, s.wireValues, s.wireInstantiated)
    /\ UNCHANGED <<r1cs, assignment, entry, other>>

(***************************************************************************)
(* Solve, lines 148-161: one computational constraint is solved, then      *)
(* evaluated and checked.                                                  *)
(***************************************************************************)
SolveConstraint ==
    /\ pc = "solve"
    /\ LET r == r1cs.Constraints[i + 1]
           s == solveR1C(r1cs, r, wireInstantiated, wireValues)
           v == instantiateR1C(r, r1cs, s.wireValues)
       IN  /\ wireValues' = s.wireValues
           /\ wireInstantiated' = s.wireInstantiated
           /\ pre' = [i |-> i, wireValues |-> wireValues,
                      wireInstantiated |-> wireInstantiated]
           /\ IF s.panic # NoPanic
              THEN /\ Leave("panic", s.panic, s.wireValues, s.wireInstantiated)
                   /\ UNCHANGED <<a, b, c, i>>
              ELSE /\ a' = [a EXCEPT ![i] = v.a]
                   /\ b' = [b EXCEPT ![i] = v.b]
                   /\ c' = [c EXCEPT ![i] = v.c]
                   /\ IF ~Satisfied(v)
                      THEN /\ Leave("panic", "error solving r1c",
                                    s.wireValues, s.wireInstantiated)
                           /\ UNCHANGED i
                      ELSE /\ i' = i + 1
                           /\ GoOn(i + 1, s.wireValues, s.wireInstantiated)
    /\ UNCHANGED <<r1cs, assignment, entry, other>>

(***************************************************************************)
(* Solve, lines 165-180: one assertion is evaluated and checked.           *)
(***************************************************************************)
CheckAssertion ==
    /\ pc = "assert"
    /\ LET r == r1cs.Constraints[i + 1]
           v == instantiateR1C(r, r1cs, wireValues)
           d == i - r1cs.NbCOConstraints
       IN  /\ a' = [a EXCEPT ![i] = v.a]
           /\ b' = [b EXCEPT ![i] = v.b]
           /\ c' = [c EXCEPT ![i] = v.c]
           /\ IF ~Satisfied(v)
              THEN /\ UNCHANGED i
                   /\ IF d + 1 > Len(r1cs.DebugInfo)
                      THEN Leave("panic", "index out of range",
                                 wireValues, wireInstantiated)
                      ELSE IF logPanics(r1cs.DebugInfo[d + 1], wireInstantiated)
                           THEN Leave("panic", "wire values was not instantiated",
                                      wireValues, wireInstantiated)
                           ELSE Leave("UnsatisfiedConstraint",
                                      logValue(r1cs.DebugInfo[d + 1], wireValues,
                                               wireInstantiated),
                                      wireValues, wireInstantiated)
              ELSE /\ i' = i + 1
                   /\ GoOn(i + 1, wireValues, wireInstantiated)
    /\ UNCHANGED <<r1cs, assignment, wireValues, wireInstantiated, entry, pre, other>>

Next == CheckInputSize \/ InstantiateInputs \/ SolveConstraint \/ CheckAssertion

Spec == Init /\ [][Next]_vars

(***************************************************************************)
(* Solve run in one piece, from the size check to the return: the result   *)
(* and the caller's buffers as the call leaves them.                       *)
(***************************************************************************)
\* the way out once printLogs is deferred
Return(cs, kind, detail, st) ==
    LET p == printLogs(cs, Len(cs.Logs), st.wireValues, st.wireInstantiated)
    IN  [ret |-> IF p.panic # NoPanic
                 THEN [kind |-> "panic", detail |-> p.panic]
                 ELSE [kind |-> kind, detail |-> detail],
         a |-> st.a, b |-> st.b, c |-> st.c, wireValues |-> st.wireValues]

\* lines 148-180: the two loops, from constraint k on
RECURSIVE Loops(_, _, _)
Loops(cs, k, st) ==
    IF k < cs.NbCOConstraints
    THEN LET r == cs.Constraints[k + 1]
             s == solveR1C(cs, r, st.wireInstantiated, st.wireValues)
             v == instantiateR1C(r, cs, s.wireValues)
             sw == [st EXCEPT !.wireValues = s.wireValues,
                              !.wireInstantiated = s.wireInstantiated]
             sv == [sw EXCEPT !.a[k] = v.a, !.b[k] = v.b, !.c[k] = v.c]
         IN  IF s.panic # NoPanic THEN Return(cs, "panic", s.panic, sw)
             ELSE IF ~Satisfied(v) THEN Return(cs, "panic", "error solving r1c", sv)
             ELSE Loops(cs, k + 1, sv)
    ELSE IF k < Len(cs.Constraints)
    THEN LET r == cs.Constraints[k + 1]
             v == instantiateR1C(r, cs, st.wireValues)
             d == k - cs.NbCOConstraints
             sv == [st EXCEPT !.a[k] = v.a, !.b[k] = v.b, !.c[k] = v.c]
         IN  IF Satisfied(v) THEN Loops(cs, k + 1, sv)
             ELSE IF d + 1 > Len(cs.DebugInfo)
             THEN Return(cs, "panic", "index out of range", sv)
             ELSE IF logPanics(cs.DebugInfo[d + 1], st.wireInstantiated)
             THEN Return(cs, "panic", "wire values was not instantiated", sv)
             ELSE Return(cs, "UnsatisfiedConstraint",
                         logValue(cs.DebugInfo[d + 1], st.wireValues,
                                  st.wireInstantiated), sv)
    ELSE Return(cs, "nil", <<>>, st)

SolveAlone(cs, asg, buf) ==
    IF SizeMismatch(cs, len(buf.a), len(buf.b), len(buf.c), len(buf.wireValues))
    THEN [ret |-> [kind |-> "InvalidInputSize", detail |-> <<>>],
          a |-> buf.a, b |-> buf.b, c |-> buf.c, wireValues |-> buf.wireValues]
    ELSE LET w0 == [wireValues |-> buf.wireValues,
                    wireInstantiated |-> [w \in 0 .. (cs.NbWires - 1) |-> FALSE],
                    err |-> ""]
             ws == IF cs.NbSecretWires # 0
                   THEN instantiateInputs(asg,
                            cs.NbWires - cs.NbPublicWires - cs.NbSecretWires,
                            cs.SecretWires, Len(cs.SecretWires), w0)
                   ELSE w0
             wp == IF ws.err # "" THEN ws
                   ELSE instantiateInputs(asg, cs.NbWires - cs.NbPublicWires,
                                          cs.PublicWires, Len(cs.PublicWires), ws)
         IN  IF wp.err # ""
             THEN [ret |-> [kind |-> "InputNotSet", detail |-> wp.err],
                   a |-> buf.a, b |-> buf.b, c |-> buf.c, wireValues |-> wp.wireValues]
             ELSE Loops(cs, 0, [a |-> buf.a, b |-> buf.b, c |-> buf.c,
                                wireValues |-> wp.wireValues,
                                wireInstantiated |-> wp.wireInstantiated])

(***************************************************************************)
(* Two calls of Solve on one constraint system, each with its own          *)
(* assignment and buffers, run interleaved: one call runs in the           *)
(* variables while the other waits in "other", and Switch exchanges them.  *)
(* The constraint system and the standard output are shared.               *)
(***************************************************************************)
PairSystems ==
    {ChainSystem(g0, g1, TRUE) :
        g0 \in {R1C(<<Term(IdOne, 2)>>, <<Term(IdOne, 3)>>, <<Term(IdOne, 0)>>,
                    "SingleOutput"),
                R1C(<<Term(IdOne, 2)>>, <<Term(IdOne, 0)>>, <<Term(IdOne, 3)>>,
                    "SingleOutput")},
        g1 \in {R1C(<<Term(IdOne, 0)>>, <<Term(IdOne, 3)>>, <<Term(IdOne, 1)>>,
                    "SingleOutput"),
                R1C(<<Term(IdOne, 1)>>, <<Term(IdOne, 2)>>, <<Term(IdOne, 4)>>,
                    "SingleOutput"),
                R1C(<<Term(IdOne, 1)>>, <<Term(IdOne, 0)>>, <<Term(IdOne, 4)>>,
                    "BinaryDec")}}

\* the calls of one system: any inputs, an input missing, a buffer too short
PairCalls(cs, dirty) ==
    {SizedCall(cs, [n \in {"x", "y"} |-> IF n = "x" THEN x ELSE y], dirty) :
        x \in 0 .. MaxVal, y \in 0 .. MaxVal}
      \cup {SizedCall(cs, [n \in {"x"} |-> 1], dirty),
            Call(cs, [n \in {"x", "y"} |-> 1], cs.NbConstraints, cs.NbConstraints,
                 cs.NbConstraints - 1, cs.NbWires, dirty)}

\* a call that has not started
Waiting(call) ==
    [assignment |-> call.assignment, a |-> call.a, b |-> call.b, c |-> call.c,
     wireValues |-> call.wireValues, wireInstantiated |-> <<>>, pc |-> "start",
     i |-> 0, ret |-> Running,
     entry |-> [a |-> call.a, b |-> call.b, c |-> call.c,
                wireValues |-> call.wireValues, r1cs |-> call.r1cs],
     pre |-> NoPre]

\* the call that runs, as it waits
Current ==
    [assignment |-> assignment, a |-> a, b |-> b, c |-> c,
     wireValues |-> wireValues, wireInstantiated |-> wireInstantiated, pc |-> pc,
     i |-> i, ret |-> ret, entry |-> entry, pre |-> pre]

InitPair ==
    \E cs \in PairSystems :
        \E first \in PairCalls(cs, FALSE), second \in PairCalls(cs, TRUE) :
            Begin(first) /\ other = Waiting(second)

\* a bitmap kept with the constraint system: the calls share it
SwitchSharedBitmap ==
    /\ other # Alone
    /\ other.pc # "done"
    /\ assignment' = other.assignment
    /\ a' = other.a
    /\ b' = other.b
    /\ c' = other.c
    /\ wireValues' = other.wireValues
    /\ pc' = other.pc
    /\ i' = other.i
    /\ ret' = other.ret
    /\ entry' = other.entry
    /\ pre' = other.pre
    /\ other' = Current
    /\ UNCHANGED <<r1cs, stdout, wireInstantiated>>

\* the other call goes on: each call has its arguments and its locals (the
\* bitmap of line 101, the loop index), the receiver is the same
Switch ==
    /\ other # Alone
    /\ other.pc # "done"
    /\ assignment' = other.assignment
    /\ a' = other.a
    /\ b' = other.b
    /\ c' = other.c
    /\ wireValues' = other.wireValues
    /\ wireInstantiated' = other.wireInstantiated
    /\ pc' = other.pc
    /\ i' = other.i
    /\ ret' = other.ret
    /\ entry' = other.entry
    /\ pre' = other.pre
    /\ other' = Current
    /\ UNCHANGED <<r1cs, stdout>>

NextPair ==
    CheckInputSize \/ InstantiateInputs \/ SolveConstraint \/ CheckAssertion \/ Switch

SpecPair == InitPair /\ [][NextPair]_vars

(***************************************************************************)
(* What the properties below speak of.                                     *)
(***************************************************************************)
SizesOK ==
    /\ {len(entry.a), len(entry.b), len(entry.c)} = {r1cs.NbConstraints}
    /\ len(entry.wireValues) = r1cs.NbWires

\* the declared input names, secret names first, without the constant wire
DeclaredNames ==
    SelectSeq((IF r1cs.NbSecretWires # 0 THEN r1cs.SecretWires ELSE <<>>)
                 \o r1cs.PublicWires,
              LAMBDA n : n # OneWire)

MissingAt == {k \in 1 .. Len(DeclaredNames) : DeclaredNames[k] \notin DOMAIN assignment}

InputsSet == MissingAt = {}

FirstMissing == DeclaredNames[CHOOSE k \in MissingAt : \A m \in MissingAt : k <= m]

NbInternal(cs) == cs.NbWires - cs.NbPublicWires - cs.NbSecretWires

InternalWires(cs) == 0 .. (NbInternal(cs) - 1)

ABCUnchanged == a = entry.a /\ b = entry.b /\ c = entry.c

(***************************************************************************)
(* C5.  With buffers of the right sizes and a declared input name missing  *)
(* from the assignment, Solve returns InputNotSet naming the first missing *)
(* name, secret names first then public names, in list order; a, b and c   *)
(* are as the caller passed them, no intermediate wire is written or       *)
(* marked instantiated, and nothing is printed.                            *)
(***************************************************************************)
C5_InputNotSet ==
    (SizesOK /\ ~InputsSet) =>
        /\ pc \in {"start", "inputs", "done"}
        /\ pc = "done" => ret = [kind |-> "InputNotSet", detail |-> FirstMissing]
        /\ ABCUnchanged
        /\ stdout = <<>>
        /\ \A w \in InternalWires(r1cs) :
              /\ wireValues[w] = entry.wireValues[w]
              /\ pc # "start" => ~wireInstantiated[w]

\* a secret and a public name are both missing, a later secret name is set,
\* and the buffers held old values
C5_Witness ==
    /\ pc = "done" /\ ret.kind = "InputNotSet" /\ SizesOK
    /\ r1cs.SecretWires = <<"s2", "s1">> /\ ret.detail = "s2"
    /\ DOMAIN assignment = {"s1", "p2"}
    /\ "p1" \in {r1cs.PublicWires[k] : k \in 1 .. Len(r1cs.PublicWires)}
    /\ r1cs.NbConstraints = 2
    /\ entry.a[0] = Stale

(***************************************************************************)
(* C6.  When the length of a, b or c is not the number of constraints, or  *)
(* the length of wireValues is not the number of wires, Solve returns      *)
(* InvalidInputSize and nothing else happens: whatever the assignment      *)
(* lacks, no entry of a, b, c or wireValues changes, nothing is printed.   *)
(***************************************************************************)
C6_InvalidInputSize ==
    (~SizesOK /\ pc # "start") =>
        /\ pc = "done"
        /\ ret.kind = "InvalidInputSize"
        /\ ABCUnchanged
        /\ wireValues = entry.wireValues
        /\ stdout = <<>>

\* only the wire values have a wrong length, and an input is missing too
C6_Witness ==
    /\ pc = "done" /\ ret.kind = "InvalidInputSize"
    /\ len(a) = r1cs.NbConstraints /\ len(b) = r1cs.NbConstraints
    /\ len(c) = r1cs.NbConstraints /\ len(wireValues) = r1cs.NbWires + 1
    /\ ~InputsSet
    /\ r1cs.NbConstraints = 2

(***************************************************************************)
(* The last step of the computational phase: its constraint, the scan of   *)
(* its terms over the wires as they were before it, and the wires a side   *)
(* names.                                                                  *)
(***************************************************************************)
Solved == pre.i >= 0

PreR == r1cs.Constraints[pre.i + 1]

PreScan == scanR1C(r1cs, PreR, pre.wireInstantiated, pre.wireValues)

PreEval(terms) == EvalTerms(r1cs, terms, Len(terms), pre.wireValues)

WiresOf(terms) == {ConstraintID(terms[k]) : k \in 1 .. Len(terms)}

PreKnown(terms) == \A w \in WiresOf(terms) : pre.wireInstantiated[w]

(***************************************************************************)
(* C9.  Single unknown in O: when every wire of L and R is instantiated    *)
(* and O is the single term 1 * wireC with wireC not instantiated, the     *)
(* step sets wireC to eval(L) * eval(R) and marks it instantiated,         *)
(* whatever the values of L and R are.                                     *)
(***************************************************************************)
C9_Case ==
    /\ Solved
    /\ PreR.Solver = "SingleOutput"
    /\ PreKnown(PreR.L) /\ PreKnown(PreR.R)
    /\ Len(PreR.O) = 1
    /\ CoeffValue(PreR.O[1]) = 1
    /\ ~pre.wireInstantiated[ConstraintID(PreR.O[1])]

C9_OutputIsProduct ==
    C9_Case =>
        /\ wireValues[ConstraintID(PreR.O[1])] = Mul(PreEval(PreR.L), PreEval(PreR.R))
        /\ wireInstantiated[ConstraintID(PreR.O[1])]

\* wireA = 6 and wireB = 7 give wireC = 42
C9_Witness ==
    /\ C9_Case
    /\ ToRegular(PreEval(PreR.L)) = 6
    /\ ToRegular(PreEval(PreR.R)) = 7
    /\ ToRegular(wireValues[ConstraintID(PreR.O[1])]) = 42 % Modulus

(***************************************************************************)
(* C10.  Single unknown under-determined: the unset wire is in L and       *)
(* eval(R) = 0, or it is in R and eval(L) = 0.                             *)
(***************************************************************************)
C10_Case ==
    /\ Solved
    /\ PreR.Solver = "SingleOutput"
    /\ PreScan.panic = NoPanic
    /\ \/ PreScan.loc = 1 /\ IsZero(PreScan.b)
       \/ PreScan.loc = 2 /\ IsZero(PreScan.a)

C10_Wire == ConstraintID(PreScan.termToCompute)

\* C10 as claimed: the step raises no error, leaves the value of the wire
\* unchanged, and leaves the wire not marked instantiated
C10_LeftUninstantiated ==
    C10_Case =>
        /\ wireValues[C10_Wire] = pre.wireValues[C10_Wire]
        /\ ~wireInstantiated[C10_Wire]

\* C10 as amended: the solving step raises no error and leaves the value
\* of the wire unchanged, but marks the wire instantiated; the evaluation
\* that follows the step ends the call in a panic exactly when eval(O) is
\* not zero.
C10_MarkedUnchanged ==
    C10_Case =>
        /\ wireValues[C10_Wire] = pre.wireValues[C10_Wire]
        /\ wireInstantiated[C10_Wire]
        /\ ~IsZero(PreScan.c) <=> (ret.kind = "panic" /\ i = pre.i)
        /\ IsZero(PreScan.c) <=> i > pre.i

\* the wire is in L, R is 0 and O is 5: the wire keeps its value, is
\* marked, and the call panics
C10_Witness ==
    /\ C10_Case
    /\ PreScan.loc = 1
    /\ ToRegular(PreScan.c) = 5
    /\ wireInstantiated[C10_Wire]
    /\ ret = [kind |-> "panic", detail |-> "error solving r1c"]

(***************************************************************************)
(* C8.  Binary decomposition: the coefficients of L are powers of two.     *)
(***************************************************************************)
\* the k with 2^k = the canonical value of the coefficient of t, or -1
Log2Coeff(t) ==
    LET v == ToRegular(r1cs.Coefficients[CoeffID(t) + 1])
    IN  IF \E k \in 0 .. MaxBits : 2 ^ k = v
        THEN CHOOSE k \in 0 .. MaxBits : 2 ^ k = v
        ELSE -1

BitOf(n, k) == (n \div (2 ^ k)) % 2

C8_Case ==
    /\ Solved
    /\ PreR.Solver = "BinaryDec"
    /\ \A j \in 1 .. Len(PreR.L) : Log2Coeff(PreR.L[j]) >= 0

\* every term of L holds bit k of eval(O), 2^k being its coefficient
C8_BitsSet ==
    \A j \in 1 .. Len(PreR.L) :
        /\ wireValues[ConstraintID(PreR.L[j])] =
              SetUint64(BitOf(ToRegular(PreEval(PreR.O)), Log2Coeff(PreR.L[j])))
        /\ wireInstantiated[ConstraintID(PreR.L[j])]

Orders(n) ==
    {p \in [1 .. n -> 1 .. n] : \A j, k \in 1 .. n : p[j] = p[k] => j = k}

\* L in any other order gives the same wires
C8_AnyOrder ==
    \A p \in Orders(Len(PreR.L)) :
        LET r == [PreR EXCEPT !.L = [j \in 1 .. Len(PreR.L) |-> PreR.L[p[j]]]]
            s == solveBinaryDec(r1cs, r, pre.wireInstantiated, pre.wireValues)
        IN  s.wireValues = wireValues /\ s.wireInstantiated = wireInstantiated

\* C8 as claimed: for any L whose coefficients are powers of two
C8_PowersOfTwo == C8_Case => (C8_BitsSet /\ C8_AnyOrder)

\* C8 as amended: for an L of n terms on n different wires whose
\* coefficients are powers of two 2^k with k < n
C8_Narrow ==
    /\ \A j \in 1 .. Len(PreR.L) : Log2Coeff(PreR.L[j]) < Len(PreR.L)
    /\ Cardinality(WiresOf(PreR.L)) = Len(PreR.L)

C8_BitsOfWidth == (C8_Case /\ C8_Narrow) => (C8_BitsSet /\ C8_AnyOrder)

\* the value 13 over the coefficients 8, 1, 4, 2 gives the wires 1, 1, 1, 0
C8_Witness ==
    /\ C8_Case /\ C8_Narrow
    /\ ToRegular(PreEval(PreR.O)) = 13
    /\ [j \in 1 .. Len(PreR.L) |-> Log2Coeff(PreR.L[j])] = <<3, 0, 2, 1>>
    /\ [j \in 1 .. Len(PreR.L) |-> ToRegular(wireValues[ConstraintID(PreR.L[j])])]
          = <<1, 1, 1, 0>>

(***************************************************************************)
(* The shape of a constraint system, read off the system alone.            *)
(***************************************************************************)
InputWires == NbInternal(r1cs) .. (r1cs.NbWires - 1)

AllWires(r) == WiresOf(r.L) \cup WiresOf(r.R) \cup WiresOf(r.O)

AllTerms(r) == r.L \o r.R \o r.O

\* the wires that hold a value once the inputs and the first k computational
\* constraints are done (a step that does not panic marks every wire of a
\* single-unknown constraint, and every wire of L of a binary decomposition)
RECURSIVE InstAt(_)
InstAt(k) ==
    IF k = 0 THEN InputWires
    ELSE IF r1cs.Constraints[k].Solver = "BinaryDec"
         THEN InstAt(k - 1) \cup WiresOf(r1cs.Constraints[k].L)
         ELSE InstAt(k - 1) \cup AllWires(r1cs.Constraints[k])

\* the terms of constraint k on a wire that is unset when k is reached
UnsetTerms(k) ==
    {j \in 1 .. Len(AllTerms(r1cs.Constraints[k])) :
        ConstraintID(AllTerms(r1cs.Constraints[k])[j]) \notin InstAt(k - 1)}

\* a single-unknown constraint has one unset wire, in one term; a binary
\* decomposition reads set wires and writes n fresh wires, one per bit
ProperAt(k) ==
    LET r == r1cs.Constraints[k]
    IN  IF r.Solver = "SingleOutput"
        THEN Cardinality(UnsetTerms(k)) = 1
        ELSE /\ WiresOf(r.R) \cup WiresOf(r.O) \subseteq InstAt(k - 1)
             /\ WiresOf(r.L) \cap InstAt(k - 1) = {}
             /\ Cardinality(WiresOf(r.L)) = Len(r.L)
             /\ {Log2Coeff(r.L[j]) : j \in 1 .. Len(r.L)} = 0 .. (Len(r.L) - 1)

Resolved(e) == {e.ToResolve[j] : j \in 1 .. Len(e.ToResolve)}

EntryWires(entries) == UNION {Resolved(entries[k]) : k \in 1 .. Len(entries)}

\* the computational constraints are ordered and classified, every wire an
\* assertion, a log or a debug entry names is computed, and every assertion
\* has its debug entry
Proper ==
    /\ \A k \in 1 .. r1cs.NbCOConstraints : ProperAt(k)
    /\ \A k \in (r1cs.NbCOConstraints + 1) .. Len(r1cs.Constraints) :
          AllWires(r1cs.Constraints[k]) \subseteq InstAt(r1cs.NbCOConstraints)
    /\ EntryWires(r1cs.Logs) \cup EntryWires(r1cs.DebugInfo)
          \subseteq InstAt(r1cs.NbCOConstraints)
    /\ Len(r1cs.DebugInfo) = Len(r1cs.Constraints) - r1cs.NbCOConstraints

\* the unset term of every single-unknown constraint has coefficient 1 or -1
UnitCoefficients ==
    \A k \in 1 .. r1cs.NbCOConstraints :
        r1cs.Constraints[k].Solver = "SingleOutput" =>
            \A j \in UnsetTerms(k) :
                CoeffValue(AllTerms(r1cs.Constraints[k])[j]) \in {1, -1}

\* L * R = O on the wire values wv, computed term by term
Holds(r, wv) ==
    LET v == instantiateR1C(r, r1cs, wv) IN Mul(v.a, v.b) = v.c

\* the inputs extend to wire values that satisfy every constraint
Satisfiable ==
    \E f \in [InternalWires(r1cs) -> Elements] :
        LET wv == [w \in 0 .. (r1cs.NbWires - 1) |->
                      IF w \in InternalWires(r1cs) THEN f[w] ELSE wireValues[w]]
        IN  \A k \in 1 .. Len(r1cs.Constraints) : Holds(r1cs.Constraints[k], wv)

Called == pc = "done" /\ SizesOK /\ InputsSet

(***************************************************************************)
(* C1.  For a system whose computational constraints are correctly         *)
(* ordered and an assignment that extends to wire values satisfying every  *)
(* constraint, Solve succeeds whatever the coefficients: stated here for   *)
(* the proper systems of at most two intermediate wires, and for the part  *)
(* of the conclusion that excludes a fatal failure.                        *)
(***************************************************************************)
C1_SatisfiableSolves ==
    (Called /\ ret.kind = "panic") =>
        ~(Proper /\ NbInternal(r1cs) <= 2 /\ Satisfiable)

(***************************************************************************)
(* C4.  A bad witness never causes a fatal failure: for a proper system    *)
(* whose unset terms have coefficient 1 or -1 and any assignment that sets *)
(* every input, Solve ends with success or with UnsatisfiedConstraint.     *)
(***************************************************************************)
C4_NoFatalFailure ==
    (Called /\ Proper /\ UnitCoefficients) =>
        ret.kind \in {"nil", "UnsatisfiedConstraint"}

(***************************************************************************)
(* C3.  The assertion phase is reached and an assertion fails.             *)
(***************************************************************************)
Assertions == (r1cs.NbCOConstraints + 1) .. Len(r1cs.Constraints)

FailingAssertions == {k \in Assertions : ~Holds(r1cs.Constraints[k], wireValues)}

C3_Case == Called /\ i >= r1cs.NbCOConstraints /\ FailingAssertions # {}

\* C3 as claimed: for every system, Solve returns UnsatisfiedConstraint
C3_Unsatisfied == C3_Case => ret.kind = "UnsatisfiedConstraint"

FirstFailing == CHOOSE k \in FailingAssertions : \A m \in FailingAssertions : k <= m

\* the first failing assertion has a debug entry, and every wire that this
\* entry and the log entries name is instantiated
C3_Resolvable ==
    /\ FirstFailing - r1cs.NbCOConstraints <= Len(r1cs.DebugInfo)
    /\ \A w \in Resolved(r1cs.DebugInfo[FirstFailing - r1cs.NbCOConstraints])
                  \cup EntryWires(r1cs.Logs) : wireInstantiated[w]

\* C3 as amended: for every system in which the failing assertion has a
\* debug entry, and that entry and the logs name instantiated wires only
C3_UnsatisfiedResolved == (C3_Case /\ C3_Resolvable) => ret.kind = "UnsatisfiedConstraint"

\* 6 * 7 = 42 is computed, the assertion w0 = y fails, the error carries the
\* two values and the logs are printed
C3_Witness ==
    /\ C3_Case /\ C3_Resolvable
    /\ ret = [kind |-> "UnsatisfiedConstraint",
              detail |-> [Format |-> "%s == %s", args |-> <<42 % Modulus, 7>>]]
    /\ Len(stdout) = 2

(***************************************************************************)
(* C2.  Solve returned success.                                            *)
(***************************************************************************)
\* every constraint holds on the final wire values, and a, b, c are its
\* three sides on the final wire values
C2_AllHold ==
    \A k \in 1 .. Len(r1cs.Constraints) :
        /\ Holds(r1cs.Constraints[k], wireValues)
        /\ [a |-> a[k - 1], b |-> b[k - 1], c |-> c[k - 1]]
              = instantiateR1C(r1cs.Constraints[k], r1cs, wireValues)

\* C2 as claimed: whenever Solve returns success
C2_Success == (pc = "done" /\ ret.kind = "nil") => C2_AllHold

\* the wires computational constraint k writes
Writes(k) ==
    IF r1cs.Constraints[k].Solver = "BinaryDec"
    THEN WiresOf(r1cs.Constraints[k].L)
    ELSE AllWires(r1cs.Constraints[k]) \ InstAt(k - 1)

\* no computational constraint writes a wire of an earlier constraint
C2_NoRewrite ==
    \A k \in 1 .. r1cs.NbCOConstraints :
        \A j \in 1 .. (k - 1) : Writes(k) \cap AllWires(r1cs.Constraints[j]) = {}

\* C2 as amended: whenever Solve returns success on a system in which no
\* computational constraint writes a wire that an earlier constraint names
C2_SuccessNoRewrite == (pc = "done" /\ ret.kind = "nil" /\ C2_NoRewrite) => C2_AllHold

\* two constraints were solved, one after the other, then the assertion
\* held, over buffers that held old values
C2_Witness ==
    /\ pc = "done" /\ ret.kind = "nil" /\ C2_NoRewrite
    /\ r1cs.NbCOConstraints = 2
    /\ Writes(1) = {0} /\ Writes(2) = {1}
    /\ \A w \in InternalWires(r1cs) : ToRegular(wireValues[w]) = 2
    /\ entry.a[0] = Stale

(***************************************************************************)
(* C11.  For a constraint system with no computational constraint and an   *)
(* assignment that sets every declared input, Solve returns success        *)
(* exactly when every assertion holds on the input values, and returns     *)
(* UnsatisfiedConstraint otherwise.                                        *)
(***************************************************************************)
C11_Case == Called /\ r1cs.NbCOConstraints = 0

C11_Accepted ==
    /\ C11_Case
    /\ r1cs.Constraints = <<AssertEqual>>
    /\ assignment = [n \in {"x", "y"} |-> 42]
    /\ ret.kind = "nil"

(***************************************************************************)
(* C12.  Solve never modifies the constraint system, and a call that runs  *)
(* interleaved with another call on the same constraint system, each with  *)
(* its own buffers and assignment, ends with the same result and the same  *)
(* a, b, c and wire values as when it runs alone.                          *)
(***************************************************************************)
Outcome(call) ==
    [ret |-> call.ret, a |-> call.a, b |-> call.b, c |-> call.c,
     wireValues |-> call.wireValues]

AsAlone(call) ==
    call.pc = "done" => Outcome(call) = SolveAlone(r1cs, call.assignment, call.entry)

C12_Interleaved ==
    /\ r1cs = entry.r1cs
    /\ AsAlone(Current)
    /\ other # Alone => (r1cs = other.entry.r1cs /\ AsAlone(other))

\* both calls are done, each after steps of the other, one with a result
\* computed from its own inputs and one ended by a fatal failure
C12_Witness ==
    /\ other # Alone
    /\ pc = "done" /\ other.pc = "done"
    /\ ret.kind = "nil" /\ other.ret.kind = "panic"
    /\ Len(stdout) = 2
    /\ stdout[1].args # stdout[2].args

(***************************************************************************)
(* C13.  Log emission.                                                     *)
(***************************************************************************)
\* log entry k resolved with the wire values of the state
Emitted(k) ==
    [Format |-> r1cs.Logs[k].Format,
     args |-> [j \in 1 .. Len(r1cs.Logs[k].ToResolve) |->
                  String(wireValues[r1cs.Logs[k].ToResolve[j]])]]

AllLogs == [k \in 1 .. Len(r1cs.Logs) |-> Emitted(k)]

\* the log entries before the first that names an uninstantiated wire
Resolvable ==
    CHOOSE n \in 0 .. Len(r1cs.Logs) :
        /\ \A k \in 1 .. n : \A w \in Resolved(r1cs.Logs[k]) : wireInstantiated[w]
        /\ n < Len(r1cs.Logs) =>
              \E w \in Resolved(r1cs.Logs[n + 1]) : ~wireInstantiated[w]

\* C13 as claimed: the logs are emitted, every entry once, in declared order
\* and with the final wire values, on success and on the assertion-phase
\* failure; no log entry is emitted when Solve returns InvalidInputSize or
\* InputNotSet, nor when the solve ends in a fatal failure
C13_TwoSituations ==
    /\ pc # "done" => stdout = <<>>
    /\ pc = "done" =>
          stdout = IF ret.kind \in {"nil", "UnsatisfiedConstraint"} THEN AllLogs ELSE <<>>

\* C13 as amended: no log entry is emitted before the call ends, nor when
\* Solve returns InvalidInputSize or InputNotSet; at every other end of the
\* call, a fatal failure included, the log entries are emitted in declared
\* order with the final wire values, each once, up to the first entry that
\* names an uninstantiated wire, which ends the call in a fatal failure; on
\* success and on UnsatisfiedConstraint every entry is emitted
C13_EveryExit ==
    /\ pc # "done" => stdout = <<>>
    /\ (pc = "done" /\ ret.kind \in {"InvalidInputSize", "InputNotSet"}) => stdout = <<>>
    /\ (pc = "done" /\ ret.kind \in {"nil", "UnsatisfiedConstraint", "panic"}) =>
          /\ stdout = SubSeq(AllLogs, 1, Resolvable)
          /\ Resolvable < Len(r1cs.Logs) => ret.kind = "panic"

\* a computational constraint failed its check, the solve ended in a fatal
\* failure, and both log entries were emitted
C13_Witness ==
    /\ pc = "done"
    /\ ret = [kind |-> "panic", detail |-> "error solving r1c"]
    /\ Len(r1cs.Logs) = 2
    /\ stdout = AllLogs

(***************************************************************************)
(* C14.  Single-unknown isolation: the constraint just solved had one      *)
(* uninstantiated wire, named by one term with a nonzero coefficient, and  *)
(* a nonzero divisor side when that term is in L or R.                     *)
(***************************************************************************)
TermsOn(r, w) == {j \in 1 .. Len(AllTerms(r)) : ConstraintID(AllTerms(r)[j]) = w}

C14_Case ==
    /\ Solved
    /\ PreR.Solver = "SingleOutput"
    /\ PreScan.panic = NoPanic
    /\ PreScan.loc # 0
    /\ Cardinality(TermsOn(PreR, ConstraintID(PreScan.termToCompute))) = 1
    /\ ~IsZero(r1cs.Coefficients[CoeffID(PreScan.termToCompute) + 1])
    /\ PreScan.loc = 1 => ~IsZero(PreScan.b)
    /\ PreScan.loc = 2 => ~IsZero(PreScan.a)

\* C14: for every such constraint and every coefficient, the value stored
\* in the wire is the one for which eval(L) * eval(R) = eval(O) holds when
\* the constraint is evaluated again
C14_ExactIsolation == C14_Case => Holds(PreR, wireValues)

(***************************************************************************)
(* C15.  The fatal failure "more than one unknown" of a single-unknown     *)
(* constraint.                                                             *)
(***************************************************************************)
\* the wires of the constraint just solved that were not instantiated
PreUnset == {w \in AllWires(PreR) : ~pre.wireInstantiated[w]}

\* C15: the failure is raised exactly when more than one uninstantiated
\* wire occurs among the terms of L, R and O; one uninstantiated wire
\* named by several terms does not raise it
C15_MoreThanOneWire ==
    (Solved /\ PreR.Solver = "SingleOutput") =>
        /\ PreScan.panic # NoPanic <=> Cardinality(PreUnset) > 1
        /\ PreScan.panic # NoPanic => ret.kind = "panic"

(***************************************************************************)
(* C16.  Computational constraints are processed one by one in stored      *)
(* order, each solved and then evaluated again at once; one that fails     *)
(* eval(L) * eval(R) = eval(O) after its solving step ends the solve in a  *)
(* fatal failure at that constraint, never in UnsatisfiedConstraint and    *)
(* never in success; UnsatisfiedConstraint is returned only for a          *)
(* constraint at an index >= the computational count.                      *)
(***************************************************************************)
C16_Failed == Solved /\ ~Holds(PreR, wireValues)

C16_FatalInPrefix ==
    /\ pc = "solve" => pre.i = i - 1
    /\ Solved => (pre.i < r1cs.NbCOConstraints /\ pre.i <= i)
    /\ C16_Failed => (pc = "done" /\ ret.kind = "panic" /\ i = pre.i)
    /\ (Solved /\ i > pre.i) =>
          [a |-> a[pre.i], b |-> b[pre.i], c |-> c[pre.i]]
             = instantiateR1C(PreR, r1cs, wireValues)
    /\ ret.kind = "UnsatisfiedConstraint" =>
          (i >= r1cs.NbCOConstraints /\ i < Len(r1cs.Constraints)
              /\ ~Holds(r1cs.Constraints[i + 1], wireValues))

\* the second computational constraint is the one that fails: the first was
\* solved and passed, the solve ends in a fatal failure at index 1
C16_Witness ==
    /\ C16_Failed
    /\ pre.i = 1 /\ i = 1
    /\ ret = [kind |-> "panic", detail |-> "error solving r1c"]
    /\ PreScan.panic = NoPanic

(***************************************************************************)
(* C17.  Write-once wires, step by step.                                   *)
(***************************************************************************)
\* the bitmap only grows, and the assertion phase changes neither the wire
\* values nor the bitmap
C17_Grows ==
    /\ \A w \in DOMAIN wireInstantiated : wireInstantiated[w] => wireInstantiated'[w]
    /\ pc = "assert" => UNCHANGED <<wireValues, wireInstantiated>>

\* the step is a binary decomposition whose L names the wire
C17_BitOf(w) ==
    /\ pc = "solve"
    /\ r1cs.Constraints[i + 1].Solver = "BinaryDec"
    /\ w \in WiresOf(r1cs.Constraints[i + 1].L)

\* C17 as claimed: the bitmap only grows, and the value of a wire marked
\* instantiated is changed by no later step, be it a single-unknown
\* constraint, a binary decomposition whose L names the wire, or an assertion
C17_WriteOnce ==
    [][/\ C17_Grows
       /\ \A w \in DOMAIN wireInstantiated :
             wireInstantiated[w] => wireValues'[w] = wireValues[w]]_vars

\* C17 as amended: the bitmap only grows, and the value of a wire marked
\* instantiated is changed by no later single-unknown constraint and by no
\* assertion; a later binary decomposition whose L names the wire gives it
\* the value of its bit again
C17_WriteOnceButBits ==
    [][/\ C17_Grows
       /\ \A w \in DOMAIN wireInstantiated :
             wireInstantiated[w] =>
                \/ wireValues'[w] = wireValues[w]
                \/ C17_BitOf(w) /\ wireValues'[w] \in {SetUint64(0), SetUint64(1)}]_vars

\* a binary decomposition has given a new value to a wire that an earlier
\* constraint had computed
C17_Witness ==
    /\ Solved
    /\ PreR.Solver = "BinaryDec"
    /\ \E w \in WiresOf(PreR.L) :
          /\ pre.wireInstantiated[w]
          /\ wireValues[w] # pre.wireValues[w]
          /\ w \in InternalWires(r1cs)

(***************************************************************************)
(* C18.  On an assertion-phase failure Solve reports the first violated    *)
(* assertion in stored order: when UnsatisfiedConstraint is returned at    *)
(* constraint k, k is the smallest index >= the computational count whose  *)
(* constraint does not hold, the error carries the debug entry at position *)
(* k minus the computational count with its wires substituted in list      *)
(* order by their current values, a[m], b[m], c[m] hold the evaluation of  *)
(* constraint m for every m <= k, and no entry of a, b, c at an index > k  *)
(* is written.                                                             *)
(***************************************************************************)
C18_Case == pc = "done" /\ ret.kind = "UnsatisfiedConstraint"

\* the wire values constraint m was evaluated on: those its solving step
\* left for a computational constraint, the final ones for an assertion
WiresAt(m) == IF m < pre.i THEN pre.wireValues ELSE wireValues

C18_Debug == r1cs.DebugInfo[i - r1cs.NbCOConstraints + 1]

C18_FirstViolated ==
    C18_Case =>
        /\ i >= r1cs.NbCOConstraints
        /\ ~Holds(r1cs.Constraints[i + 1], wireValues)
        /\ \A m \in r1cs.NbCOConstraints .. (i - 1) :
              Holds(r1cs.Constraints[m + 1], wireValues)
        /\ ret.detail =
              [Format |-> C18_Debug.Format,
               args |-> [j \in 1 .. Len(C18_Debug.ToResolve) |->
                            ToRegular(wireValues[C18_Debug.ToResolve[j]])]]
        /\ \A m \in 0 .. i :
              [a |-> a[m], b |-> b[m], c |-> c[m]]
                 = instantiateR1C(r1cs.Constraints[m + 1], r1cs, WiresAt(m))
        /\ \A m \in (i + 1) .. (Len(r1cs.Constraints) - 1) :
              a[m] = entry.a[m] /\ b[m] = entry.b[m] /\ c[m] = entry.c[m]

\* two assertions are violated: the first is the one reported, with its two
\* wires in list order, and the entries of the second keep their old values
C18_Witness ==
    /\ C18_Case
    /\ r1cs.NbCOConstraints = 0 /\ Len(r1cs.Constraints) = 2 /\ i = 0
    /\ ~Holds(r1cs.Constraints[2], wireValues)
    /\ ret.detail.args = <<2, 1>>
    /\ a[1] = Stale /\ a[0] # Stale

(***************************************************************************)
(* C19.  Input placement: the input phase has succeeded and no constraint  *)
(* has been solved since.                                                  *)
(***************************************************************************)
C19_Case ==
    /\ pc \in {"solve", "assert", "done"}
    /\ ret.kind \notin {"InvalidInputSize", "InputNotSet"}
    /\ ~Solved

\* the wire holds the value of the name: 1 for the constant wire, whatever
\* the assignment holds, and the value the assignment gives any other name
C19_Placed(name, w) ==
    /\ wireInstantiated[w]
    /\ IF name = OneWire THEN ToRegular(wireValues[w]) = 1
       ELSE /\ name \in DOMAIN assignment
            /\ ToRegular(wireValues[w]) = assignment[name] % Modulus

\* C19: the i-th secret name is at wire count - public count - secret count
\* + i, the i-th public name at wire count - public count + i, the constant
\* wire holds 1 without a lookup, every input wire is marked, and no
\* intermediate wire is written or marked
C19_InputPlacement ==
    C19_Case =>
        /\ \A k \in 1 .. Len(r1cs.SecretWires) :
              C19_Placed(r1cs.SecretWires[k],
                         r1cs.NbWires - r1cs.NbPublicWires - r1cs.NbSecretWires + k - 1)
        /\ \A k \in 1 .. Len(r1cs.PublicWires) :
              C19_Placed(r1cs.PublicWires[k], r1cs.NbWires - r1cs.NbPublicWires + k - 1)
        /\ \A w \in InputWires : wireInstantiated[w]
        /\ \A w \in InternalWires(r1cs) :
              ~wireInstantiated[w] /\ wireValues[w] = entry.wireValues[w]

\* two secret and three public names, the constant wire last and also a
\* key of the assignment, over a buffer that held old values
C19_Witness ==
    /\ C19_Case
    /\ r1cs.SecretWires = <<"s2", "s1">>
    /\ r1cs.PublicWires = <<"p2", "p1", OneWire>>
    /\ OneWire \in DOMAIN assignment
    /\ [w \in 1 .. 5 |-> ToRegular(wireValues[w])] = <<2, 1, 4, 3, 1>>
    /\ wireValues[0] = Stale

====
